---- MODULE Spec2Model ----
(***************************************************************************)
(* A model of PyFLP's mixer projection (pyflp/mixer.py, pyflp/_models.py): *)
(* the Mixer.Params table, the Mixer -> Insert -> Slot views built over    *)
(* an event stream, the parameter descriptors and the version tables; and  *)
(* of its pattern projection (pyflp/pattern.py): Patterns, Pattern, Note.  *)
(*                                                                         *)
(* Python objects are shared by reference.  The parsed records of the      *)
(* Mixer.Params event are kept in blob order in `recs`; the table `items`  *)
(* and every view refer to a record by its position in `recs`, so that a   *)
(* write through one view is seen by all the others.  An operation that    *)
(* raises is recorded in `last.raised`; state it changed before raising    *)
(* stays changed, as in Python.                                            *)
(***************************************************************************)
EXTENDS Integers, Sequences, FiniteSets, TLC

VARIABLES
    events,     \* MultiEventModel._events_tuple of the Mixer or Patterns
    recs,       \* records parsed from the first Mixer.Params body, blob order
    extra,      \* len(data) % STRUCT_SIZE of that body
    unparsed,   \* MixerParamsEvent.unparsed
    items,      \* MixerParamsEvent.items (a defaultdict of _InsertItems)
    version,    \* Mixer._kw["version"], an FLVersion
    inserts,    \* the Insert views the caller holds from iterating the Mixer
    bands,      \* the InsertEQBand views the caller holds
    note,       \* ItemModel._item of a Note: the record of a NotesEvent
    last        \* outcome of the last operation

vars ==
    <<events, recs, extra, unparsed, items, version, inserts, bands, note,
      last>>

----------------------------------------------------------------------------
(* Bounds of the model *)

MaxEvents == 4
MaxRecs == 3

(* Program constants *)

STRUCT_SIZE == 12
SlotEnabled == 0
SlotMix == 1
RouteVolStart == 64
Volume == 192
Pan == 193
StereoSeparation == 194

(* An optional value: None, or Some(x) *)
None == <<>>
Some(x) == <<x>>
IsNone(o) == Len(o) = 0

----------------------------------------------------------------------------
(* Events.  `value` is an integer payload, `text` a string payload and     *)
(* `list` the items of a list event.                                       *)

Event(id, value, text, list) ==
    [id |-> id, value |-> value, text |-> text, list |-> list]

InsertID ==
    {"Insert.Icon", "Insert.Output", "Insert.Color", "Insert.Input",
     "Insert.Name", "Insert.Routing", "Insert.Flags"}

MixerID == {"Mixer.APDC", "Mixer.Params"}

SlotID == {"Slot.Index"}

PluginID ==
    {"Plugin.Color", "Plugin.Icon", "Plugin.InternalName", "Plugin.Name"}

EvOutput == Event("Insert.Output", 0, "", <<>>)
EvName(s) == Event("Insert.Name", 0, s, <<>>)
EvRouting(l) == Event("Insert.Routing", 0, "", l)
EvSlotIndex(n) == Event("Slot.Index", n, "", <<>>)
EvPluginName(s) == Event("Plugin.Name", 0, s, <<>>)
EvParams == Event("Mixer.Params", 0, "", <<>>)
EvAPDC == Event("Mixer.APDC", 1, "", <<>>)

(* MultiEventModel.__init__: _events maps an id to the list of the events  *)
(* with that id, in stream order.                                          *)
EventsOf(evs, id) == SelectSeq(evs, LAMBDA e : e.id = id)

HasEvent(evs, id) == \E p \in 1..Len(evs) : evs[p].id = id

----------------------------------------------------------------------------
(* The Mixer.Params table *)

(* the struct's fields are u4, id, u1, channel_data, msg; a record has no
   field order, and the fields are written in the order TLC sorts them *)
Rec(id, cd, msg) ==
    [id |-> id, msg |-> msg, u4 |-> 0, u1 |-> 0, channel_data |-> cd]

InsertIdx(cd) == (cd \div 64) % 128

SlotIdx(cd) == cd % 64

(* dataclass _InsertItems with its default factories *)
NewInsertItems == [own |-> <<>>, slots |-> <<>>]

(* d[k] of a defaultdict: a missing key is created with the default *)
DefaultGet(d, k, default) ==
    IF k \in DOMAIN d THEN d
    ELSE [x \in (DOMAIN d) \cup {k} |-> IF x = k THEN default ELSE d[x]]

(* d[k] = v of a function-shaped dict *)
FnSet(d, k, v) == [x \in (DOMAIN d) \cup {k} |-> IF x = k THEN v ELSE d[x]]

(* d[k] = v of an insertion-ordered dict kept as a sequence of <<key, value>> *)
DictSet(d, k, v) ==
    IF \E p \in 1..Len(d) : d[p][1] = k
    THEN [p \in 1..Len(d) |-> IF d[p][1] = k THEN <<k, v>> ELSE d[p]]
    ELSE Append(d, <<k, v>>)

(* the body of the loop of MixerParamsEvent.__init__ for record i *)
ParseOne(rs, i, tbl) ==
    LET item == rs[i]
        insert_idx == InsertIdx(item.channel_data)
        slot_idx == SlotIdx(item.channel_data)
        t1 == DefaultGet(tbl, insert_idx, NewInsertItems)
        insert == t1[insert_idx]
    IN  IF item.id \in {SlotEnabled, SlotMix}
        THEN LET s1 == DefaultGet(insert.slots, slot_idx, <<>>)
                 s2 == FnSet(s1, slot_idx, FnSet(s1[slot_idx], item.id, i))
             IN  FnSet(t1, insert_idx, [insert EXCEPT !.slots = s2])
        ELSE FnSet(t1, insert_idx,
                   [insert EXCEPT !.own = DictSet(insert.own, item.id, i)])

RECURSIVE ParseFrom(_, _, _)
ParseFrom(rs, i, tbl) ==
    IF i > Len(rs) THEN tbl ELSE ParseFrom(rs, i + 1, ParseOne(rs, i, tbl))

(* MixerParamsEvent.__init__ on a body of Len(rs) records and ex more bytes *)
IsUnparsed(rs, ex) == (STRUCT_SIZE * Len(rs) + ex) % STRUCT_SIZE # 0

ParseItems(rs, ex) == IF IsUnparsed(rs, ex) THEN <<>> ELSE ParseFrom(rs, 1, <<>>)

----------------------------------------------------------------------------
(* Version-gated limits *)

FLVersion(major, minor, patch, build) ==
    [major |-> major, minor |-> minor, patch |-> patch, build |-> build]

(* dataclasses.astuple: all four fields, build included even when None *)
AsTuple(v) == <<v.major, v.minor, v.patch, v.build>>

(* a <= b of two Python tuples: the first differing element decides; when  *)
(* one is a prefix of the other the shorter one is the smaller             *)
RECURSIVE TupleLE(_, _)
TupleLE(a, b) ==
    IF Len(a) = 0 THEN TRUE
    ELSE IF Len(b) = 0 THEN FALSE
    ELSE IF Head(a) = Head(b) THEN TupleLE(Tail(a), Tail(b))
    ELSE Head(a) < Head(b)

MAX_INSERTS ==
    << <<(<<1, 6, 5>>), 5>>, <<(<<2, 0, 1>>), 8>>, <<(<<3, 0, 0>>), 18>>,
       <<(<<3, 3, 0>>), 20>>, <<(<<4, 0, 0>>), 64>>, <<(<<9, 0, 0>>), 105>>,
       <<(<<12, 9, 0>>), 127>> >>

MAX_SLOTS == << <<(<<1, 6, 5>>), 4>>, <<(<<3, 0, 0>>), 8>> >>

(* for k, v in table.items(): if version <= k: return v *)
RECURSIVE FirstBound(_, _, _, _)
FirstBound(tuple, table, i, fallback) ==
    IF i > Len(table) THEN fallback
    ELSE IF TupleLE(tuple, table[i][1]) THEN table[i][2]
    ELSE FirstBound(tuple, table, i + 1, fallback)

MaxInserts(v) == FirstBound(AsTuple(v), MAX_INSERTS, 1, 127)

MaxSlots(v) == FirstBound(AsTuple(v), MAX_SLOTS, 1, 10)

----------------------------------------------------------------------------
(* Mixer iteration *)

(* The Insert built by Mixer.__iter__ from the buffered events, the index,  *)
(* max_slots and, optionally, params.  `params` is <<>> when                *)
(* the keyword is not passed and <<k>> when it is items[k].                *)
Insert(evs, index, max_slots, params) ==
    [events |-> evs, index |-> index, max_slots |-> max_slots,
     params |-> params]

(* `params[index]` in Mixer.__iter__: `params` is the defaultdict `items`  *)
(* when the stream has a Mixer.Params event, which never fails, and the    *)
(* empty dict otherwise, whose subscription raises KeyError.               *)
ParamsLookup(evs) ==
    IF HasEvent(evs, "Mixer.Params") THEN "ok" ELSE "KeyError"

(* The loop of Mixer.__iter__ from event p on, with the buffer `buf`, the  *)
(* running `index` and the inserts yielded so far.                         *)
RECURSIVE IterFrom(_, _, _, _, _, _)
IterFrom(evs, ver, p, buf, index, out) ==
    IF p > Len(evs) THEN [yielded |-> out, raised |-> "none"]
    ELSE
        LET event == evs[p]
            buf1 == IF event.id \in InsertID \cup PluginID \cup SlotID
                    THEN Append(buf, event) ELSE buf
            found == ParamsLookup(evs)
        IN  IF event.id = "Insert.Output"
            THEN IF found = "IndexError"
                 THEN IterFrom(evs, ver, p + 1, <<>>, index + 1,
                        Append(out, Insert(buf1, index, MaxSlots(ver), <<>>)))
                 ELSE IF found = "ok"
                 THEN IterFrom(evs, ver, p + 1, <<>>, index + 1,
                        Append(out, Insert(buf1, index, MaxSlots(ver),
                                           <<index>>)))
                 ELSE [yielded |-> out, raised |-> found]
            ELSE IterFrom(evs, ver, p + 1, buf1, index, out)

MixerIterate(evs, ver) == IterFrom(evs, ver, 1, <<>>, 0, <<>>)

(* the entries `params[index]` creates in the defaultdict for the inserts  *)
(* that were produced                                                      *)
RECURSIVE Touch(_, _)
Touch(tbl, ins) ==
    IF Len(ins) = 0 THEN tbl
    ELSE Touch(IF Len(Head(ins).params) = 0 THEN tbl
               ELSE DefaultGet(tbl, Head(ins).params[1], NewInsertItems),
               Tail(ins))

Result(op, arg, raised, value) ==
    [value |-> value, raised |-> raised, op |-> op, arg |-> arg]

(* inserts = list(mixer) *)
MixerIter ==
    LET r == MixerIterate(events, version)
    IN  /\ inserts' = IF r.raised = "none" THEN r.yielded ELSE inserts
        /\ items' = Touch(items, r.yielded)
        /\ last' = Result("Mixer.__iter__", <<>>, r.raised, <<>>)
        /\ UNCHANGED <<bands, note, events, recs, extra, unparsed, version>>

----------------------------------------------------------------------------
(* Lookups on the Mixer *)

(* Insert.__index__ *)
InsertIndex(ins) == ins.index

(* Insert.name: the payload of the first Insert.Name event, None without *)
InsertName(ins) ==
    IF HasEvent(ins.events, "Insert.Name")
    THEN Some(EventsOf(ins.events, "Insert.Name")[1].text)
    ELSE None

IntKey(n) == [s |-> "", n |-> n, isint |-> TRUE]
StrKey(s) == [s |-> s, n |-> 0, isint |-> FALSE]

(* the condition of the loop of Mixer.__getitem__; idx is enumerate's count *)
GetItemMatch(idx, insert, i) ==
    \/ i.isint /\ idx = i.n + 1
    \/ ~i.isint /\ Some(i.s) = InsertName(insert)

(* position of the insert Mixer.__getitem__ returns, 0 when the loop ends *)
RECURSIVE FindInsert(_, _, _)
FindInsert(ins, i, p) ==
    IF p > Len(ins) THEN 0
    ELSE IF GetItemMatch(p - 1, ins[p], i) THEN p
    ELSE FindInsert(ins, i, p + 1)

(* mixer[i] for an int or a str; the generator is consumed up to the match *)
MixerGetItem(i) ==
    LET r == MixerIterate(events, version)
        m == FindInsert(r.yielded, i, 1)
    IN  /\ last' = IF m > 0
                   THEN Result("Mixer.__getitem__", i, "none", <<r.yielded[m]>>)
                   ELSE IF r.raised # "none"
                   THEN Result("Mixer.__getitem__", i, r.raised, <<>>)
                   ELSE Result("Mixer.__getitem__", i, "ModelNotFound", <<>>)
        /\ items' = Touch(items, IF m > 0 THEN SubSeq(r.yielded, 1, m)
                                 ELSE r.yielded)
        /\ UNCHANGED <<bands, note, events, recs, extra, unparsed, version,
                       inserts>>

(* x in range(start, stop), for x an optional integer: NotImplemented,   *)
(* kept as None, is in no range                                            *)
InRange(x, start, stop) == ~IsNone(x) /\ start <= x[1] /\ x[1] < stop

(* getslice's wrapper for a slice: the comprehension evaluates            *)
(* range(i.start, i.stop) once per model, which raises TypeError for a     *)
(* None bound; i.step is not read.                                         *)
RECURSIVE SliceFilter(_, _, _, _, _)
SliceFilter(models, indexes, p, start, stop) ==
    IF p > Len(models) THEN <<>>
    ELSE (IF InRange(indexes[p], start, stop) THEN <<models[p]>> ELSE <<>>)
         \o SliceFilter(models, indexes, p + 1, start, stop)

(* indexes[p] is the __index__() of models[p] *)
GetSlice(models, indexes, raised, start, stop) ==
    IF Len(models) > 0 /\ (IsNone(start) \/ IsNone(stop))
    THEN [value |-> <<>>, raised |-> "TypeError", consumed |-> 1]
    ELSE IF raised # "none"
    THEN [value |-> <<>>, raised |-> raised, consumed |-> Len(models)]
    ELSE [value |-> SliceFilter(models, indexes, 1, start[1], stop[1]),
          raised |-> "none", consumed |-> Len(models)]

(* mixer[start:stop] *)
MixerGetSlice(start, stop) ==
    LET r == MixerIterate(events, version)
        g == GetSlice(r.yielded,
                      [p \in 1..Len(r.yielded) |->
                          Some(InsertIndex(r.yielded[p]))],
                      r.raised, start, stop)
    IN  /\ last' = Result("Mixer.__getitem__[slice]", <<start, stop>>,
                          g.raised, g.value)
        /\ items' = Touch(items, SubSeq(r.yielded, 1, g.consumed))
        /\ UNCHANGED <<bands, note, events, recs, extra, unparsed, version,
                       inserts>>

----------------------------------------------------------------------------
(* Slots of an Insert *)

Slot(evs, params) == [events |-> evs, params |-> params]

(* Slot.__index__: NotImplemented (None here) without a Slot.Index event *)
SlotIndex(slot) ==
    IF ~HasEvent(slot.events, "Slot.Index") THEN None
    ELSE Some(EventsOf(slot.events, "Slot.Index")[1].value)

(* keys of MultiEventModel._events in dict order: ids by first occurrence *)
RECURSIVE IdsInOrder(_)
IdsInOrder(evs) ==
    IF Len(evs) = 0 THEN <<>>
    ELSE LET rest == IdsInOrder(SubSeq(evs, 1, Len(evs) - 1))
             id == evs[Len(evs)].id
         IN  IF \E p \in 1..Len(rest) : rest[p] = id THEN rest
             ELSE Append(rest, id)

(* the inner loop of Insert.__iter__: the i-th event of each Slot or       *)
(* Plugin id that has more than i events                                   *)
RECURSIVE SlotEventsFrom(_, _, _, _)
SlotEventsFrom(evs, ids, q, i) ==
    IF q > Len(ids) THEN <<>>
    ELSE LET subevents == EventsOf(evs, ids[q])
         IN  (IF ids[q] \in SlotID \cup PluginID /\ i < Len(subevents)
              THEN <<subevents[i + 1]>> ELSE <<>>)
             \o SlotEventsFrom(evs, ids, q + 1, i)

SlotEvents(ins, i) == SlotEventsFrom(ins.events, IdsInOrder(ins.events), 1, i)

(* self._kw["params"][i] in Insert.__iter__: KeyError without the keyword; *)
(* with it the value is an _InsertItems, a dataclass that defines no       *)
(* __getitem__, so that the subscription raises TypeError.                 *)
SlotParams(ins, i) ==
    IF Len(ins.params) = 0 THEN [raised |-> "KeyError", value |-> <<>>]
    ELSE [raised |-> "TypeError", value |-> <<>>]

RECURSIVE SlotsFrom(_, _, _)
SlotsFrom(ins, i, out) ==
    IF i >= ins.max_slots + 1 THEN [yielded |-> out, raised |-> "none"]
    ELSE LET evs == SlotEvents(ins, i)
             prm == SlotParams(ins, i)
         IN  IF prm.raised # "none"
             THEN [yielded |-> out, raised |-> prm.raised]
             ELSE SlotsFrom(ins, i + 1, Append(out, Slot(evs, prm.value)))

InsertIterate(ins) == SlotsFrom(ins, 0, <<>>)

(* list(insert) for the k-th insert the caller holds *)
InsertIter(k) ==
    LET r == InsertIterate(inserts[k])
    IN  /\ last' = Result("Insert.__iter__", <<k>>, r.raised, r.yielded)
        /\ UNCHANGED <<bands, note, events, recs, extra, unparsed, items,
                       version, inserts>>

(* insert[start:stop] for the k-th insert the caller holds *)
InsertGetSlice(k, start, stop) ==
    LET r == InsertIterate(inserts[k])
        g == GetSlice(r.yielded,
                      [p \in 1..Len(r.yielded) |-> SlotIndex(r.yielded[p])],
                      r.raised, start, stop)
    IN  /\ last' = Result("Insert.__getitem__[slice]", <<k, start, stop>>,
                          g.raised, g.value)
        /\ UNCHANGED <<bands, note, events, recs, extra, unparsed, items,
                       version, inserts>>

----------------------------------------------------------------------------
(* Parameter descriptors of an Insert *)

(* _MixerParamProp.__get__: None (a bare fall off the loop) without a match *)
RECURSIVE ParamGetFrom(_, _, _, _)
ParamGetFrom(rs, own, id, q) ==
    IF q > Len(own) THEN None
    ELSE IF own[q][1] = id THEN Some(rs[own[q][2]].msg)
    ELSE ParamGetFrom(rs, own, id, q + 1)

(* a setter that writes every record of the blob carrying the id, whatever *)
(* insert it belongs to                                                    *)
ParamSetAnyInsert(rs, own, id, value, q) ==
    [p \in 1..Len(rs) |->
        IF rs[p].id = id THEN [rs[p] EXCEPT !.msg = value] ELSE rs[p]]

(* the loop of _MixerParamProp.__set__ from dict entry q on *)
RECURSIVE ParamSetFrom(_, _, _, _, _)
ParamSetFrom(rs, own, id, value, q) ==
    IF q > Len(own) THEN rs
    ELSE ParamSetFrom(IF own[q][1] = id
                      THEN [rs EXCEPT ![own[q][2]].msg = value] ELSE rs,
                      own, id, value, q + 1)

(* what follows the loop of __set__: the loop has no break, so its else    *)
(* clause runs after every complete pass                                   *)
ParamSetOutcome(own, id) == "PropertyCannotBeSet"

(* insert.<prop> for the k-th insert the caller holds *)
ParamGet(k, id) ==
    LET ins == inserts[k]
    IN  /\ last' = IF IsNone(ins.params)
                   THEN Result("param.__get__", <<k, id>>, "KeyError", None)
                   ELSE Result("param.__get__", <<k, id>>, "none",
                               ParamGetFrom(recs, items[ins.params[1]].own,
                                            id, 1))
        /\ UNCHANGED <<bands, note, events, recs, extra, unparsed, items,
                       version, inserts>>

(* insert.<prop> = value for the k-th insert the caller holds *)
ParamSet(k, id, value) ==
    LET ins == inserts[k]
    IN  /\ IF IsNone(ins.params)
           THEN /\ recs' = recs
                /\ last' = Result("param.__set__", <<k, id, value>>,
                                  "KeyError", None)
           ELSE LET own == items[ins.params[1]].own
                IN  /\ recs' = ParamSetFrom(recs, own, id, value, 1)
                    /\ last' = Result("param.__set__", <<k, id, value>>,
                                      ParamSetOutcome(own, id), None)
        /\ UNCHANGED <<bands, note, events, extra, unparsed, items, version,
                       inserts>>

(* the loop of Insert.routes; r is the position of the iterator over the   *)
(* routing list.  next() on the exhausted iterator raises StopIteration    *)
(* inside the generator, which surfaces as RuntimeError.                   *)
RECURSIVE RoutesFrom(_, _, _, _, _, _)
RoutesFrom(rs, own, q, routing, r, out) ==
    IF q > Len(own) THEN [yielded |-> out, raised |-> "none"]
    ELSE IF own[q][1] >= RouteVolStart
    THEN IF r > Len(routing) THEN [yielded |-> out, raised |-> "RuntimeError"]
         ELSE RoutesFrom(rs, own, q + 1, routing, r + 1,
                         IF routing[r] THEN Append(out, rs[own[q][2]].msg)
                         ELSE out)
    ELSE RoutesFrom(rs, own, q + 1, routing, r, out)

(* list(insert.routes) for the k-th insert the caller holds *)
Routes(k) ==
    LET ins == inserts[k]
    IN  /\ last' =
            IF ~HasEvent(ins.events, "Insert.Routing") \/ IsNone(ins.params)
            THEN Result("Insert.routes", <<k>>, "KeyError", <<>>)
            ELSE LET g == RoutesFrom(recs, items[ins.params[1]].own, 1,
                              EventsOf(ins.events, "Insert.Routing")[1].list,
                              1, <<>>)
                 IN  Result("Insert.routes", <<k>>, g.raised, g.yielded)
        /\ UNCHANGED <<bands, note, events, recs, extra, unparsed, items,
                       version, inserts>>

----------------------------------------------------------------------------
(* Version properties *)

MaxInsertsGet ==
    /\ last' = Result("Mixer.max_inserts", <<>>, "none", <<MaxInserts(version)>>)
    /\ UNCHANGED <<bands, note, events, recs, extra, unparsed, items, version,
                   inserts>>

MaxSlotsGet ==
    /\ last' = Result("Mixer.max_slots", <<>>, "none", <<MaxSlots(version)>>)
    /\ UNCHANGED <<bands, note, events, recs, extra, unparsed, items, version,
                   inserts>>

----------------------------------------------------------------------------
(* Initial states and specifications *)

SeqsUpTo(S, n) == UNION {[1..k -> S] : k \in 0..n}

DefaultVersion == FLVersion(20, 8, 3, None)

DefaultRecs == <<Rec(Volume, 0, 10), Rec(Volume, 64, 20)>>

(* the state after constructing the models with version ver over a stream *)
(* evs whose first Mixer.Params event, if any, has a body of the records   *)
(* rs and ex bytes, and a Note over an item of the raw key                 *)
ConstructNote(evs, rs, ex, ver, key) ==
    /\ events = evs
    /\ recs = rs
    /\ extra = ex
    /\ unparsed = IsUnparsed(rs, ex)
    /\ items = ParseItems(rs, ex)
    /\ version = ver
    /\ inserts = <<>>
    /\ bands = <<>>
    /\ note = [key |-> key]
    /\ last = Result("init", <<>>, "none", <<>>)

(* the same with a Note of the key C5 *)
Construct(evs, rs, ex, ver) == ConstructNote(evs, rs, ex, ver, 60)

(* Projection of streams *)

StreamEvents == {EvOutput, EvName("a"), EvSlotIndex(0), EvParams, EvAPDC}

Names == {"a", "b"}
Indexes == {-1, 0, 1, 2}
Bounds == {None, Some(0), Some(2)}

Init ==
    \E evs \in SeqsUpTo(StreamEvents, MaxEvents) :
        Construct(evs, IF HasEvent(evs, "Mixer.Params") THEN DefaultRecs
                       ELSE <<>>, 0, DefaultVersion)

Next ==
    \/ MixerIter
    \/ \E i \in Indexes : MixerGetItem(IntKey(i))
    \/ \E s \in Names : MixerGetItem(StrKey(s))
    \/ \E start \in Bounds, stop \in Bounds : MixerGetSlice(start, stop)
    \/ \E k \in 1..Len(inserts) : InsertIter(k)
    \/ \E k \in 1..Len(inserts), start \in Bounds, stop \in Bounds :
           InsertGetSlice(k, start, stop)

Spec == Init /\ [][Next]_vars

(* Parameter table *)

ParamRecs ==
    {Rec(Volume, 0, 0), Rec(Volume, 64, 0), Rec(Pan, 0, 0),
     Rec(RouteVolStart, 1, 0), Rec(SlotEnabled, 1, 0),
     Rec(SlotMix, 8256, 0)}

(* the msg of the i-th record of an initial blob: distinct per position *)
InitMsg(i) == 10 * i

Blobs ==
    {[i \in 1..Len(b) |-> [b[i] EXCEPT !.msg = InitMsg(i)]] :
        b \in SeqsUpTo(ParamRecs, MaxRecs)}

ParamStreams ==
    {<<EvParams, EvRouting(<<TRUE>>), EvOutput,
       EvRouting(<<FALSE, TRUE>>), EvOutput>>}

ParamIds == {Volume, Pan, StereoSeparation}
SetValues == {7}

(* a stream without a Mixer.Params event has no blob *)
BareStreams == {<<EvOutput, EvOutput>>}

InitParams ==
    \/ \E evs \in ParamStreams, rs \in Blobs, ex \in {0, 1} :
           Construct(evs, rs, ex, DefaultVersion)
    \/ \E evs \in BareStreams : Construct(evs, <<>>, 0, DefaultVersion)

NextParams ==
    \/ MixerIter
    \/ \E k \in 1..Len(inserts), id \in ParamIds : ParamGet(k, id)
    \/ \E k \in 1..Len(inserts), id \in ParamIds, v \in SetValues :
           ParamSet(k, id, v)
    \/ \E k \in 1..Len(inserts) : Routes(k)
    \/ \E k \in 1..Len(inserts) : InsertIter(k)
    \/ \E i \in {0, 1} : MixerGetItem(IntKey(i))

SpecParams == InitParams /\ [][NextParams]_vars

(* Version tables *)

Versions ==
    {FLVersion(ma, mi, pa, b) :
        ma \in {1, 2, 3, 4, 9, 12, 13}, mi \in {0, 3, 6, 9}, pa \in {0, 1, 5},
        b \in {None, Some(0)}}

InitVersion ==
    \E ver \in Versions : Construct(<<EvParams, EvOutput>>, DefaultRecs, 0, ver)

NextVersion == MaxInsertsGet \/ MaxSlotsGet

SpecVersion == InitVersion /\ [][NextVersion]_vars

----------------------------------------------------------------------------
(* Patterns: the same MultiEventModel, over the stream `events` *)

PatternID ==
    {"Pattern.Looped", "Pattern.New", "Pattern.Color", "Pattern.Name",
     "Pattern.ChannelIID", "Pattern._161", "Pattern._162", "Pattern.Length",
     "Pattern.Controllers", "Pattern.Notes"}

EvNew(n) == Event("Pattern.New", n, "", <<>>)
EvPatternName(s) == Event("Pattern.Name", 0, s, <<>>)
EvNotes == Event("Pattern.Notes", 0, "", <<>>)

(* len(self._events[PatternID.New]): occurrences, not distinct payloads *)
NewOccurrences(evs) == Len(EventsOf(evs, "Pattern.New"))

(* len({event.value for event in self._events[PatternID.New]}) *)
NewPayloads(evs) ==
    LET news == EventsOf(evs, "Pattern.New")
    IN  Cardinality({news[p].value : p \in 1..Len(news)})

(* len(patterns) *)
PatternsLen ==
    /\ last' = IF ~HasEvent(events, "Pattern.New")
               THEN Result("Patterns.__len__", <<>>, "NoModelsFound", None)
               ELSE Result("Patterns.__len__", <<>>, "none",
                           Some(NewPayloads(events)))
    /\ UNCHANGED <<bands, note, events, recs, extra, unparsed, items, version,
                   inserts>>

(* events_dict[k] of the defaultdict(list) kept as <<key, value>> pairs *)
DictGet(d, k) ==
    IF \E p \in 1..Len(d) : d[p][1] = k
    THEN d[CHOOSE p \in 1..Len(d) : d[p][1] = k][2]
    ELSE <<>>

(* Pattern(events...): the model keeps the stream positions of its events *)
Pattern(positions) == [events |-> positions]

(* the first loop of Patterns.__iter__ from position p of the stream *)
RECURSIVE GroupFrom(_, _, _, _)
GroupFrom(evs, p, cur_pat_id, events_dict) ==
    IF p > Len(evs) THEN events_dict
    ELSE IF evs[p].id \notin PatternID
    THEN GroupFrom(evs, p + 1, cur_pat_id, events_dict)
    ELSE LET cur == IF evs[p].id = "Pattern.New" THEN evs[p].value
                    ELSE cur_pat_id
         IN  GroupFrom(evs, p + 1, cur,
                       DictSet(events_dict, cur,
                               Append(DictGet(events_dict, cur), p)))

(* list(patterns): one Pattern per value of events_dict, in insertion order *)
PatternsIterate(evs) ==
    LET events_dict == GroupFrom(evs, 1, 0, <<>>)
    IN  [g \in 1..Len(events_dict) |-> Pattern(events_dict[g][2])]

(* the positions of the events of a pattern that carry the id *)
PatternEventsOf(evs, pattern, id) ==
    SelectSeq(pattern.events, LAMBDA p : evs[p].id = id)

(* Pattern.index, and Pattern.__index__ which returns it: the payload of  *)
(* the first New event of the pattern, KeyError when it has none           *)
PatternIndex(evs, pattern) ==
    LET news == PatternEventsOf(evs, pattern, "Pattern.New")
    IN  IF Len(news) = 0 THEN [raised |-> "KeyError", value |-> 0]
        ELSE [raised |-> "none", value |-> evs[news[1]].value]

(* Pattern.name: the payload of the first Pattern.Name event, None without *)
PatternName(evs, pattern) ==
    LET names == PatternEventsOf(evs, pattern, "Pattern.Name")
    IN  IF Len(names) = 0 THEN None ELSE Some(evs[names[1]].text)

(* list(patterns) *)
PatternsIter ==
    /\ last' = Result("Patterns.__iter__", <<>>, "none",
                      Some(PatternsIterate(events)))
    /\ UNCHANGED <<bands, note, events, recs, extra, unparsed, items, version,
                   inserts>>

(* `not i` for an int or a str *)
Falsy(i) == IF i.isint THEN i.n = 0 ELSE i.s = ""

(* the loop of Patterns.__getitem__ from the p-th pattern: the position of *)
(* the pattern returned, or what is raised                                 *)
RECURSIVE FindPattern(_, _, _, _)
FindPattern(evs, patterns, i, p) ==
    IF p > Len(patterns) THEN [raised |-> "ModelNotFound", at |-> 0]
    ELSE LET index == PatternIndex(evs, patterns[p])
         IN  IF index.raised # "none" THEN [raised |-> index.raised, at |-> 0]
             ELSE IF i.isint /\ index.value = i.n
             THEN [raised |-> "none", at |-> p]
             ELSE FindPattern(evs, patterns, i, p + 1)

(* patterns[i] for an int or a str; NotImplemented is returned, not raised, *)
(* and is recorded as the outcome "NotImplemented" with no pattern          *)
PatternsGetItem(i) ==
    LET patterns == PatternsIterate(events)
        found == FindPattern(events, patterns, i, 1)
    IN  /\ last' = IF Falsy(i)
                   THEN Result("Patterns.__getitem__", i, "NotImplemented",
                               None)
                   ELSE IF found.raised # "none"
                   THEN Result("Patterns.__getitem__", i, found.raised, None)
                   ELSE Result("Patterns.__getitem__", i, "none",
                               Some(patterns[found.at]))
        /\ UNCHANGED <<bands, note, events, recs, extra, unparsed, items,
                       version, inserts>>

(* Pattern stream *)

PatternEvents ==
    {EvNew(0), EvNew(1), EvNew(2), EvPatternName("a"), EvNotes, EvAPDC}

InitPatterns ==
    \E evs \in SeqsUpTo(PatternEvents, MaxEvents) :
        Construct(evs, <<>>, 0, DefaultVersion)

PatternIndexes == {0, 1, 2, 3}
PatternNames == {"", "a", "b"}

NextPatterns ==
    \/ PatternsLen
    \/ PatternsIter
    \/ \E i \in PatternIndexes : PatternsGetItem(IntKey(i))
    \/ \E s \in PatternNames : PatternsGetItem(StrKey(s))

SpecPatterns == InitPatterns /\ [][NextPatterns]_vars

----------------------------------------------------------------------------
(* Note.key; a str is a sequence of one-character strings *)

_NOTE_NAMES ==
    << <<"C">>, <<"C", "#">>, <<"D">>, <<"D", "#">>, <<"E">>, <<"F">>,
       <<"F", "#">>, <<"G">>, <<"G", "#">>, <<"A">>, <<"A", "#">>, <<"B">> >>

Digits == <<"0", "1", "2", "3", "4", "5", "6", "7", "8", "9">>

IsDigit(c) == \E d \in 1..Len(Digits) : Digits[d] = c

DigitValue(c) == (CHOOSE d \in 1..Len(Digits) : Digits[d] = c) - 1

(* str(n) of an int *)
RECURSIVE Str(_)
Str(n) ==
    IF n < 0 THEN <<"-">> \o Str(-n)
    ELSE IF n < 10 THEN <<Digits[n + 1]>>
    ELSE Str(n \div 10) \o <<Digits[(n % 10) + 1]>>

RECURSIVE DigitsValue(_, _)
DigitsValue(s, acc) ==
    IF Len(s) = 0 THEN acc
    ELSE DigitsValue(Tail(s), 10 * acc + DigitValue(Head(s)))

(* int(s) of a str of digits, signs, letters and '#': an optional sign and *)
(* at least one digit, ValueError otherwise                                *)
ParseInt(s) ==
    LET signed == Len(s) > 0 /\ Head(s) \in {"-", "+"}
        body == IF signed THEN Tail(s) ELSE s
    IN  IF Len(body) = 0 \/ \E p \in 1..Len(body) : ~IsDigit(body[p])
        THEN [raised |-> "ValueError", value |-> 0]
        ELSE [raised |-> "none",
              value |-> IF signed /\ Head(s) = "-" THEN -DigitsValue(body, 0)
                        ELSE DigitsValue(body, 0)]

(* value.startswith(name) *)
StartsWith(value, name) ==
    Len(name) <= Len(value) /\ SubSeq(value, 1, Len(name)) = name

(* value.replace(name, "", 1): the first occurrence of name is removed *)
Replace1(value, name) ==
    LET at == {p \in 1..(Len(value) - Len(name) + 1) :
                  SubSeq(value, p, p + Len(name) - 1) = name}
    IN  IF at = {} THEN value
        ELSE LET p == CHOOSE q \in at : \A o \in at : q <= o
             IN  SubSeq(value, 1, p - 1)
                     \o SubSeq(value, p + Len(name), Len(value))

(* the getter of Note.key on a raw key *)
KeyName(key) == _NOTE_NAMES[(key % 12) + 1] \o Str(key \div 12)

(* note.key *)
KeyGet ==
    /\ last' = Result("Note.key", <<>>, "none", Some(KeyName(note.key)))
    /\ UNCHANGED <<bands, note, events, recs, extra, unparsed, items, version,
                   inserts>>

NoteInt(n) == [s |-> <<>>, n |-> n, isint |-> TRUE]
NoteStr(s) == [s |-> s, n |-> 0, isint |-> FALSE]

(* the int branch of the setter of Note.key *)
KeySetInt(value, key) ==
    IF value \notin 0..131 THEN [raised |-> "ValueError", key |-> key]
    ELSE [raised |-> "none", key |-> value]

(* the for loop of the str branch from enumerate's count i; the loop has   *)
(* no break, so its else clause runs whenever the loop ends                *)
RECURSIVE KeySetLoop(_, _, _)
KeySetLoop(value, i, key) ==
    IF i >= Len(_NOTE_NAMES) THEN [raised |-> "ValueError", key |-> key]
    ELSE LET name == _NOTE_NAMES[i + 1]
         IN  IF StartsWith(value, name)
             THEN LET octave == ParseInt(Replace1(value, name))
                  IN  IF octave.raised # "none"
                      THEN [raised |-> octave.raised, key |-> key]
                      ELSE KeySetLoop(value, i + 1, octave.value * 12 + i)
             ELSE KeySetLoop(value, i + 1, key)

(* note.key = value for an int or a str *)
KeySet(value) ==
    LET r == IF value.isint THEN KeySetInt(value.n, note.key)
             ELSE KeySetLoop(value.s, 0, note.key)
    IN  /\ note' = [note EXCEPT !.key = r.key]
        /\ last' = Result("Note.key.setter", value, r.raised, None)
        /\ UNCHANGED <<bands, events, recs, extra, unparsed, items, version,
                       inserts>>

(* Notes *)

RawKeys == {0, 1, 11, 12, 60, 61, 119, 120, 131}

IntValues == RawKeys \cup {-1, 132, 65535}

StrValues ==
    {KeyName(k) : k \in RawKeys}
        \cup {<<>>, <<"C">>, <<"H", "5">>, <<"5">>, <<"C", "1", "1">>,
              <<"C", "-", "1">>, <<"C", "#">>, <<"B", "1", "1">>}

InitNote ==
    \E k \in RawKeys : ConstructNote(<<>>, <<>>, 0, DefaultVersion, k)

NextNote ==
    \/ KeyGet
    \/ \E n \in IntValues : KeySet(NoteInt(n))
    \/ \E s \in StrValues : KeySet(NoteStr(s))

SpecNote == InitNote /\ [][NextNote]_vars

----------------------------------------------------------------------------
(* Lengths of the Mixer and of an Insert *)

EvFlags == Event("Insert.Flags", 0, "", <<>>)

(* len(mixer) *)
MixerLen ==
    /\ last' = IF ~HasEvent(events, "Insert.Flags")
               THEN Result("Mixer.__len__", <<>>, "NoModelsFound", None)
               ELSE Result("Mixer.__len__", <<>>, "none",
                           Some(Len(EventsOf(events, "Insert.Flags"))))
    /\ UNCHANGED <<bands, note, events, recs, extra, unparsed, items, version,
                   inserts>>

(* the depth of nested calls at which the interpreter raises RecursionError *)
RecursionLimit == 8

(* Insert.__len__ entered at the given depth of nested calls.  Without a   *)
(* Slot.Index event it evaluates list(self); list() first asks len(self)   *)
(* for a length hint, which enters __len__ again, ignores a TypeError from *)
(* it and lets any other exception through, and only then would iterate.   *)
RECURSIVE InsertLenFrom(_, _)
InsertLenFrom(ins, depth) ==
    IF HasEvent(ins.events, "Slot.Index")
    THEN [raised |-> "none",
          value |-> Some(Len(EventsOf(ins.events, "Slot.Index")))]
    ELSE IF depth >= RecursionLimit
    THEN [raised |-> "RecursionError", value |-> None]
    ELSE LET hint == InsertLenFrom(ins, depth + 1)
             r == InsertIterate(ins)
         IN  IF hint.raised \notin {"none", "TypeError"}
             THEN [raised |-> hint.raised, value |-> None]
             ELSE IF r.raised # "none"
             THEN [raised |-> r.raised, value |-> None]
             ELSE [raised |-> "none", value |-> Some(Len(r.yielded))]

(* len(insert) for the k-th insert the caller holds *)
InsertLen(k) ==
    LET r == InsertLenFrom(inserts[k], 1)
    IN  /\ last' = Result("Insert.__len__", <<k>>, r.raised, r.value)
        /\ UNCHANGED <<bands, note, events, recs, extra, unparsed, items,
                       version, inserts>>

(* Streams with flags *)

LenEvents == {EvFlags, EvOutput, EvParams, EvSlotIndex(0)}

InitLen ==
    \E evs \in SeqsUpTo(LenEvents, MaxEvents) :
        Construct(evs, IF HasEvent(evs, "Mixer.Params") THEN DefaultRecs
                       ELSE <<>>, 0, DefaultVersion)

NextLen ==
    \/ MixerLen
    \/ MixerIter
    \/ \E k \in 1..Len(inserts) : InsertLen(k)

SpecLen == InitLen /\ [][NextLen]_vars

----------------------------------------------------------------------------
(* The EQ of an Insert *)

LowGain == 208
MidGain == 209
HighGain == 210
LowFreq == 216
MidFreq == 217
HighFreq == 218
LowQ == 224
MidQ == 225
HighQ == 226

_InsertEQPropArgs(freq, gain, reso) ==
    [freq |-> freq, gain |-> gain, reso |-> reso]

(* the descriptors low, mid and high of InsertEQ with their ids *)
InsertEQ ==
    [low |-> _InsertEQPropArgs(LowFreq, LowGain, LowQ),
     mid |-> _InsertEQPropArgs(MidFreq, MidGain, MidQ),
     high |-> _InsertEQPropArgs(HighFreq, HighGain, HighQ)]

(* _InsertEQBandKW: the keywords of a band, each a record or missing *)
NoItems == [freq |-> None, gain |-> None, reso |-> None]

(* the loop of _InsertEQProp.__get__ over own.items() from entry q on *)
RECURSIVE EQItemsFrom(_, _, _, _)
EQItemsFrom(own, ids, q, kw) ==
    IF q > Len(own) THEN kw
    ELSE LET id == own[q][1]
             param == own[q][2]
         IN  EQItemsFrom(own, ids, q + 1,
                 IF id = ids.freq THEN [kw EXCEPT !.freq = Some(param)]
                 ELSE IF id = ids.gain THEN [kw EXCEPT !.gain = Some(param)]
                 ELSE IF id = ids.reso THEN [kw EXCEPT !.reso = Some(param)]
                 ELSE kw)

(* the InsertEQBand built from the items, labelled with the insert and    *)
(* the descriptor the caller obtained it from                              *)
InsertEQBand(index, name, kw) == [insert |-> index, kw |-> kw, band |-> name]

(* insert.eq.<name> of an insert: InsertEQ(params) and then the descriptor *)
EQBandOf(tbl, ins, name) ==
    InsertEQBand(ins.index, name,
                 EQItemsFrom(tbl[ins.params[1]].own, InsertEQ[name], 1,
                             NoItems))

(* the views the caller may hold at once *)
MaxBands == 2

(* bands.append(inserts[k].eq.<name>) *)
EQBandGet(k, name) ==
    LET ins == inserts[k]
    IN  /\ Len(bands) < MaxBands
        /\ IF IsNone(ins.params)
           THEN /\ bands' = bands
                /\ last' = Result("InsertEQ.__get__", <<k, name>>, "KeyError",
                                  None)
           ELSE /\ bands' = Append(bands, EQBandOf(items, ins, name))
                /\ last' = Result("InsertEQ.__get__", <<k, name>>, "none",
                                  None)
        /\ UNCHANGED <<note, events, recs, extra, unparsed, items, version,
                       inserts>>

(* _InsertEQBandProp.__get__: instance._kw[prop]["msg"] *)
BandGetFrom(rs, kw, prop) ==
    IF IsNone(kw[prop]) THEN None ELSE Some(rs[kw[prop][1]].msg)

(* a band that keeps copies of its records: nothing reaches the table *)
BandSetDetached(rs, kw, prop, value) == rs

(* _InsertEQBandProp.__set__: instance._kw[prop]["msg"] = value *)
BandSetFrom(rs, kw, prop, value) ==
    IF IsNone(kw[prop]) THEN rs
    ELSE [rs EXCEPT ![kw[prop][1]].msg = value]

(* bands[j].<prop> *)
BandGet(j, prop) ==
    LET kw == bands[j].kw
    IN  /\ last' = Result("band.__get__", <<j, prop>>,
                          IF IsNone(kw[prop]) THEN "KeyError" ELSE "none",
                          BandGetFrom(recs, kw, prop))
        /\ UNCHANGED <<bands, note, events, recs, extra, unparsed, items,
                       version, inserts>>

(* bands[j].<prop> = value *)
BandSet(j, prop, value) ==
    LET kw == bands[j].kw
    IN  /\ recs' = BandSetFrom(recs, kw, prop, value)
        /\ last' = Result("band.__set__", <<j, prop, value>>,
                          IF IsNone(kw[prop]) THEN "KeyError" ELSE "none",
                          None)
        /\ UNCHANGED <<bands, note, events, extra, unparsed, items, version,
                       inserts>>

(* EQ records *)

EQRecs ==
    {Rec(LowGain, 0, 0), Rec(LowFreq, 0, 0), Rec(MidGain, 0, 0),
     Rec(LowGain, 64, 0)}

EQBlobs ==
    {[i \in 1..Len(b) |-> [b[i] EXCEPT !.msg = InitMsg(i)]] :
        b \in SeqsUpTo(EQRecs, MaxRecs)}

BandNames == {"low"}
BandProps == {"gain", "freq"}

InitEQ ==
    \E evs \in ParamStreams, rs \in EQBlobs :
        Construct(evs, rs, 0, DefaultVersion)

NextEQ ==
    \/ MixerIter
    \/ \E k \in 1..Len(inserts), name \in BandNames : EQBandGet(k, name)
    \/ \E j \in 1..Len(bands), prop \in BandProps : BandGet(j, prop)
    \/ \E j \in 1..Len(bands), prop \in BandProps, v \in SetValues :
           BandSet(j, prop, v)

SpecEQ == InitEQ /\ [][NextEQ]_vars

----------------------------------------------------------------------------
(* Properties *)

(* the records of the blob that belong to insert i and carry the id *)
RecordsOf(i, id) ==
    {p \in 1..Len(recs) :
        recs[p].id = id /\ InsertIdx(recs[p].channel_data) = i}

Min(S) == CHOOSE x \in S : \A y \in S : x <= y

(* C1: assigning volume, pan or stereo_separation of an insert raises      *)
(* PropertyCannotBeSet if and only if the insert's table has no record     *)
(* with the parameter id; with the record present the assignment does not  *)
(* raise and a following read returns the assigned value.                  *)
C1_SetRaisesIffAbsent ==
    (last.op = "param.__set__" /\ ~IsNone(inserts[last.arg[1]].params)) =>
        LET ins == inserts[last.arg[1]]
            id == last.arg[2]
            own == items[ins.params[1]].own
            present == \E q \in 1..Len(own) : own[q][1] = id
        IN  /\ (last.raised = "PropertyCannotBeSet") <=> ~present
            /\ present => /\ last.raised = "none"
                          /\ ParamGetFrom(recs, own, id, 1) = Some(last.arg[3])

(* C2: assigning insert[i].volume = v changes nothing but the msg field of *)
(* one Volume record of insert i: every other field, every other record of *)
(* that insert and of the other inserts keeps its value, no record is      *)
(* added or removed, and the table itself is unchanged.                    *)
C2_SetterLocality ==
    [][(last'.op = "param.__set__" /\ last'.arg[2] = Volume) =>
        LET i == inserts[last'.arg[1]].index
            v == last'.arg[3]
            changed == {p \in 1..Len(recs) : recs'[p] # recs[p]}
        IN  /\ Len(recs') = Len(recs)
            /\ \A p \in changed :
                   /\ p \in RecordsOf(i, Volume)
                   /\ recs'[p] = [recs[p] EXCEPT !.msg = v]
            /\ Cardinality(changed) <= 1
            /\ items' = items
            /\ <<extra, unparsed>>' = <<extra, unparsed>>]_vars

(* C2 witness: volume was assigned on one of several inserts; its Volume   *)
(* record holds the new value while a Pan record of the same insert and    *)
(* the Volume record of another insert hold their initial values.          *)
C2_Witness ==
    /\ last.op = "param.__set__"
    /\ last.arg[2] = Volume
    /\ Len(inserts) >= 2
    /\ LET i == inserts[last.arg[1]].index
       IN  /\ \E p \in RecordsOf(i, Volume) :
                  recs[p].msg = last.arg[3] /\ recs[p].msg # InitMsg(p)
           /\ \E q \in RecordsOf(i, Pan) : recs[q].msg = InitMsg(q)
           /\ \E j \in 0..127 : j # i /\
                  \E r \in RecordsOf(j, Volume) : recs[r].msg = InitMsg(r)

(* C3: with several records of the same insert and parameter id in a       *)
(* well-formed blob, the getter returns the msg of the first of them in    *)
(* blob order and the setter writes the first of them.                     *)
C3_FirstRecordWins ==
    (/\ last.op \in {"param.__get__", "param.__set__"}
     /\ ~unparsed
     /\ RecordsOf(inserts[last.arg[1]].index, last.arg[2]) # {}) =>
        LET first == Min(RecordsOf(inserts[last.arg[1]].index, last.arg[2]))
        IN  /\ last.op = "param.__get__" => last.value = Some(recs[first].msg)
            /\ last.op = "param.__set__" => recs[first].msg = last.arg[3]

(* The inserts of the stream by position: one per Insert.Output event,    *)
(* holding the Insert, Plugin and Slot events after the previous           *)
(* Insert.Output up to and including its own.                              *)
OutputsUpTo(p) == Cardinality({q \in 1..p : events[q].id = "Insert.Output"})

NumOutputs == OutputsUpTo(Len(events))

OutputPos(k) ==
    IF k = 0 THEN 0
    ELSE CHOOSE p \in 1..Len(events) :
             events[p].id = "Insert.Output" /\ OutputsUpTo(p) = k

ExpectedInserts ==
    [k \in 1..NumOutputs |->
        Insert(SelectSeq(SubSeq(events, OutputPos(k - 1) + 1, OutputPos(k)),
                         LAMBDA e : e.id \in InsertID \cup PluginID \cup SlotID),
               k - 1, MaxSlots(version), Some(k - 1))]

(* C4: iterating the Mixer over any event sequence yields one Insert per   *)
(* Insert.Output event, in stream order, indexed 0, 1, 2, ..., each with   *)
(* the Insert, Plugin and Slot events between the previous Output and its  *)
(* own and with the table entry for its index as params.                   *)
C4_OneInsertPerOutput ==
    last.op = "Mixer.__iter__" =>
        /\ last.raised = "none"
        /\ inserts = ExpectedInserts

(* C5: mixer[i] for an integer returns the first insert whose __index__()  *)
(* is i and raises ModelNotFound when there is none; for a string it       *)
(* returns the first insert with that name.  Stated for streams with a     *)
(* Mixer.Params event.                                                     *)
C5_GetItemByIndex ==
    (last.op = "Mixer.__getitem__" /\ HasEvent(events, "Mixer.Params")) =>
        LET i == last.arg
            hits == {k \in 1..NumOutputs :
                        IF i.isint THEN InsertIndex(ExpectedInserts[k]) = i.n
                        ELSE InsertName(ExpectedInserts[k]) = Some(i.s)}
        IN  IF hits = {} THEN last.raised = "ModelNotFound"
            ELSE /\ last.raised = "none"
                 /\ last.value = <<ExpectedInserts[Min(hits)]>>

(* C6: a slice lookup on a Mixer or an Insert returns, in iteration order, *)
(* the models whose __index__() is in [start, stop), an omitted start or   *)
(* stop leaving that side open, and never raises.  Stated for streams with *)
(* a Mixer.Params event.                                                   *)
C6_SliceHalfOpen ==
    /\ (last.op = "Mixer.__getitem__[slice]"
        /\ HasEvent(events, "Mixer.Params")) =>
            /\ last.raised = "none"
            /\ last.value =
                 SelectSeq(ExpectedInserts,
                     LAMBDA m :
                         /\ IsNone(last.arg[1]) \/ last.arg[1][1] <= m.index
                         /\ IsNone(last.arg[2]) \/ m.index < last.arg[2][1])
    /\ last.op = "Insert.__getitem__[slice]" => last.raised = "none"

(* C7: iterating the slots of an Insert produced by Mixer iteration yields *)
(* max_slots + 1 Slots without raising; the i-th holds the i-th event of   *)
(* each Slot or Plugin id of the insert that has one.                      *)
C7_SlotsDense ==
    last.op = "Insert.__iter__" =>
        LET ins == inserts[last.arg[1]]
        IN  /\ last.raised = "none"
            /\ Len(last.value) = ins.max_slots + 1
            /\ \A i \in 0..ins.max_slots :
                   last.value[i + 1].events = SlotEvents(ins, i)

(* C8: the i-th Slot of an insert is backed by the table entry slots[i] of *)
(* that insert, whose SlotEnabled and SlotMix records it reads and writes. *)
C8_SlotBackedByTable ==
    (last.op = "Insert.__iter__" /\ ~IsNone(inserts[last.arg[1]].params)) =>
        LET ins == inserts[last.arg[1]]
            slots == items[ins.params[1]].slots
        IN  \A i \in 0..ins.max_slots :
                /\ i < Len(last.value)
                /\ last.value[i + 1].params =
                       IF i \in DOMAIN slots THEN slots[i] ELSE <<>>

(* the msg of the send records paired with a true routing entry *)
RECURSIVE ExpectedRoutes(_, _, _)
ExpectedRoutes(sends, routing, r) ==
    IF r > Len(sends) \/ r > Len(routing) THEN <<>>
    ELSE (IF routing[r] THEN <<recs[sends[r][2]].msg>> ELSE <<>>)
         \o ExpectedRoutes(sends, routing, r + 1)

(* C9: Insert.routes pairs the routing list, in order, with the records of *)
(* the insert whose id is in 64..191 only, yields the msg of the records   *)
(* paired with a set entry, and stops at the shorter sequence without      *)
(* raising.                                                                *)
C9_RoutesZipSends ==
    (/\ last.op = "Insert.routes"
     /\ HasEvent(inserts[last.arg[1]].events, "Insert.Routing")
     /\ ~IsNone(inserts[last.arg[1]].params)) =>
        LET ins == inserts[last.arg[1]]
            sends == SelectSeq(items[ins.params[1]].own,
                         LAMBDA e : e[1] >= RouteVolStart /\ e[1] < Volume)
            routing == EventsOf(ins.events, "Insert.Routing")[1].list
        IN  /\ last.raised = "none"
            /\ last.value = ExpectedRoutes(sends, routing, 1)

(* (major, minor, patch) of the version is at most the key, numerically *)
VersionAtMost(v, key) ==
    \/ v.major < key[1]
    \/ v.major = key[1] /\ v.minor < key[2]
    \/ v.major = key[1] /\ v.minor = key[2] /\ v.patch <= key[3]

(* the value of the smallest key of the table that is >= the version *)
SmallestKeyBound(v, table, fallback) ==
    LET ks == {i \in 1..Len(table) : VersionAtMost(v, table[i][1])}
    IN  IF ks = {} THEN fallback
        ELSE table[CHOOSE i \in ks : \A j \in ks :
                       VersionAtMost(FLVersion(table[i][1][1], table[i][1][2],
                                               table[i][1][3], None),
                                     table[j][1])][2]

(* C10: max_inserts and max_slots are the values of the smallest table key *)
(* that is >= the project version, a version equal to a key selecting that *)
(* key, and 127 and 10 beyond the largest key.                             *)
C10_SmallestKeySelects ==
    /\ last.op = "Mixer.max_inserts" =>
           last.value = <<SmallestKeyBound(version, MAX_INSERTS, 127)>>
    /\ last.op = "Mixer.max_slots" =>
           last.value = <<SmallestKeyBound(version, MAX_SLOTS, 10)>>

(* C11: len(Patterns) is the number of distinct payloads of the            *)
(* PatternID.New events of the stream, not the number of these events, and *)
(* NoModelsFound is raised when the stream has none.                       *)
C11_LenCountsDistinctNew ==
    last.op = "Patterns.__len__" =>
        LET payloads == {events[p].value :
                            p \in {q \in 1..Len(events) :
                                      events[q].id = "Pattern.New"}}
        IN  IF payloads = {} THEN last.raised = "NoModelsFound"
            ELSE /\ last.raised = "none"
                 /\ last.value = Some(Cardinality(payloads))

(* C11 witness: the length was taken of a stream in which a payload occurs *)
(* twice, so that there are more New events than patterns.                 *)
C11_Witness ==
    /\ last.op = "Patterns.__len__"
    /\ last.value = Some(2)
    /\ NewOccurrences(events) >= 3

(* the payloads of the PatternID.New events of the stream *)
NewPayloadSet == {events[p].value :
                     p \in {q \in 1..Len(events) : events[q].id = "Pattern.New"}}

(* C12: patterns[0] returns no Pattern but NotImplemented; patterns[i] for *)
(* an integer i >= 1 raises ModelNotFound when i is the payload of no      *)
(* PatternID.New event of the stream, and returns the pattern whose index  *)
(* is i when it is one.                                                    *)
C12_OneBasedIndexing ==
    (last.op = "Patterns.__getitem__" /\ last.arg.isint) =>
        LET i == last.arg.n
        IN  IF i = 0
            THEN last.raised = "NotImplemented" /\ IsNone(last.value)
            ELSE IF i \notin NewPayloadSet
            THEN last.raised = "ModelNotFound"
            ELSE /\ last.raised = "none"
                 /\ ~IsNone(last.value)
                 /\ PatternIndex(events, last.value[1]) =
                        [raised |-> "none", value |-> i]

(* the patterns of the stream whose Pattern.name is s *)
PatternsNamed(s) ==
    {g \in 1..Len(PatternsIterate(events)) :
        PatternName(events, PatternsIterate(events)[g]) = Some(s)}

(* C13: for a non-empty string s, patterns[s] returns a pattern whose      *)
(* Pattern.name is s when the stream has one, and raises ModelNotFound     *)
(* only when no pattern has that name.                                     *)
C13_LookupByName ==
    (last.op = "Patterns.__getitem__" /\ ~last.arg.isint /\ last.arg.s # "") =>
        IF PatternsNamed(last.arg.s) # {}
        THEN /\ last.raised = "none"
             /\ ~IsNone(last.value)
             /\ PatternName(events, last.value[1]) = Some(last.arg.s)
        ELSE last.raised = "ModelNotFound"

(* the positions of the Pattern-family events of the stream *)
PatternFamily == {p \in 1..Len(events) : events[p].id \in PatternID}

(* C18: on a stream with a PatternID.New event, iterating Patterns yields  *)
(* len(Patterns) patterns, each of them has a PatternID.New event, and     *)
(* every Pattern-family event of the stream is in exactly one of them,     *)
(* also when Pattern-family events precede the first PatternID.New event.  *)
C18_IterationAgreesWithLen ==
    (last.op = "Patterns.__iter__" /\ HasEvent(events, "Pattern.New")) =>
        LET yielded == last.value[1]
        IN  /\ Len(yielded) = Cardinality(NewPayloadSet)
            /\ \A g \in 1..Len(yielded) :
                   PatternIndex(events, yielded[g]).raised = "none"
            /\ \A p \in PatternFamily :
                   Cardinality({<<g, k>> \in
                                   (1..Len(yielded)) \X (1..Len(events)) :
                                   /\ k <= Len(yielded[g].events)
                                   /\ yielded[g].events[k] = p}) = 1

(* the str the getter of Note.key gives for a raw key of [0, 132), if s is *)
(* one                                                                     *)
KeysNamed(s) == {k \in 0..131 : KeyName(k) = s}

(* C14: assigning an integer k of [0, 132) to note.key leaves k in         *)
(* note["key"], and assigning the string the getter produces for such a k  *)
(* (like "C5" for 60 and "C#5" for 61) completes without raising and       *)
(* leaves k in note["key"].                                                *)
C14_KeyRoundTrip ==
    last.op = "Note.key.setter" =>
        /\ (last.arg.isint /\ last.arg.n \in 0..131) =>
               (last.raised = "none" /\ note.key = last.arg.n)
        /\ (~last.arg.isint) =>
               \A k \in KeysNamed(last.arg.s) :
                   last.raised = "none" /\ note.key = k

(* an assignment the setter of Note.key has to refuse *)
InvalidKey(value) ==
    IF value.isint THEN value.n \notin 0..131 ELSE KeysNamed(value.s) = {}

(* C15: an assignment to note.key of an integer outside [0, 132), or of a  *)
(* string that is not a note name followed by an octave of [0, 132),       *)
(* raises ValueError and leaves note["key"] as it was, so a raw key that   *)
(* starts in [0, 132) stays there under any sequence of assignments.       *)
C15_SetterRefusesInvalid ==
    /\ [](note.key \in 0..131)
    /\ [][(last'.op = "Note.key.setter" /\ InvalidKey(last'.arg)) =>
              (last'.raised = "ValueError" /\ note'.key = note.key)]_vars

(* the records of the blob that belong to insert i *)
RecordsOfInsert(i) ==
    {p \in 1..Len(recs) : InsertIdx(recs[p].channel_data) = i}

(* the parameter data of insert i is missing: no Mixer.Params event, an    *)
(* unparsed blob, or no record of the insert                               *)
ParamsMissing(i) ==
    \/ ~HasEvent(events, "Mixer.Params")
    \/ unparsed
    \/ RecordsOfInsert(i) = {}

(* C16: when the Mixer.Params event is absent, unparsed or without a       *)
(* record for an insert, iterating the Mixer and mixer[i] still yield      *)
(* every insert without raising, volume, pan and stereo_separation of such *)
(* an insert read None, and an unparsed blob exposes no record.            *)
C16_MissingParamsTolerated ==
    /\ (last.op = "Mixer.__iter__"
            /\ \E i \in 0..(NumOutputs - 1) : ParamsMissing(i)) =>
           (last.raised = "none" /\ Len(inserts) = NumOutputs)
    /\ (last.op = "Mixer.__getitem__" /\ last.arg.isint
            /\ last.arg.n \in 0..(NumOutputs - 1)
            /\ ParamsMissing(last.arg.n)) =>
           (last.raised = "none" /\ InsertIndex(last.value[1]) = last.arg.n)
    /\ (last.op = "param.__get__"
            /\ ParamsMissing(InsertIndex(inserts[last.arg[1]]))) =>
           (last.raised = "none" /\ IsNone(last.value))
    /\ unparsed =>
           \A k \in DOMAIN items : items[k] = NewInsertItems

(* C19: on every stream on which len(mixer) does not raise, it equals the  *)
(* number of Inserts that iterating the mixer yields: the count of         *)
(* Insert.Flags events agrees with the count of Insert.Output events.      *)
C19_LenAgreesWithIteration ==
    (last.op = "Mixer.__len__" /\ last.raised = "none") =>
        /\ MixerIterate(events, version).raised = "none"
        /\ last.value = Some(Len(MixerIterate(events, version).yielded))
        /\ last.value = Some(NumOutputs)

(* C20: len(insert) terminates: it returns the number of Slot.Index events *)
(* of the insert when it has one, and otherwise the number of slots that   *)
(* iterating the insert produces, max_slots + 1, without re-entering       *)
(* itself through the list it builds.                                      *)
C20_InsertLenTerminates ==
    last.op = "Insert.__len__" =>
        LET ins == inserts[last.arg[1]]
            indexes == {p \in 1..Len(ins.events) :
                           ins.events[p].id = "Slot.Index"}
        IN  /\ last.raised = "none"
            /\ last.value = IF indexes # {} THEN Some(Cardinality(indexes))
                            ELSE Some(ins.max_slots + 1)

(* the bands that the inserts of the Mixer iteration give access to *)
FreshBands ==
    {EQBandOf(items, inserts[k], name) :
        k \in 1..Len(inserts), name \in DOMAIN InsertEQ}

Max(S) == CHOOSE x \in S : \A y \in S : y <= x

(* C17: after the assignment of gain, freq or reso on a band obtained from *)
(* insert.eq.low, mid or high, a record of that insert with the id of the  *)
(* band's field holds the new value in msg and nothing else in the blob    *)
(* has changed; every view of the same band of the same insert, held       *)
(* before or built afterwards from an insert of the Mixer iteration, reads *)
(* the new value, and every other field of every view reads what it read   *)
(* before.  A read through a view built at any time, also after another    *)
(* Mixer iteration, returns the msg of the record of the insert with the   *)
(* id of the band's field (the last one in the blob when there are         *)
(* several).                                                               *)
C17_WriteThrough ==
    [][/\ (last'.op = "band.__get__") =>
           LET h == bands'[last'.arg[1]]
               targets == RecordsOf(h.insert, InsertEQ[h.band][last'.arg[2]])
           IN  IF targets = {} THEN last'.raised = "KeyError"
               ELSE last'.value = Some(recs'[Max(targets)].msg)
       /\ (last'.op = "band.__set__") =>
        LET b == bands[last'.arg[1]]
            prop == last'.arg[2]
            v == last'.arg[3]
            targets == RecordsOf(b.insert, InsertEQ[b.band][prop])
            Expected(h, g) ==
                IF h.insert = b.insert /\ h.band = b.band /\ g = prop
                THEN Some(v)
                ELSE BandGetFrom(recs, h.kw, g)
        IN  IF targets = {} THEN recs' = recs
            ELSE /\ last'.raised = "none"
                 /\ \E p \in targets :
                        /\ recs'[p] = [recs[p] EXCEPT !.msg = v]
                        /\ \A q \in 1..Len(recs) : q # p => recs'[q] = recs[q]
                 /\ Len(recs') = Len(recs)
                 /\ \A j \in 1..Len(bands'), g \in DOMAIN NoItems :
                        BandGetFrom(recs', bands'[j].kw, g)
                            = Expected(bands[j], g)
                 /\ \A h \in FreshBands', g \in DOMAIN NoItems :
                        BandGetFrom(recs', h.kw, g) = Expected(h, g)]_vars

(* C17 witness: gain was assigned through the second of two held views of  *)
(* the same band of an insert; the first view reads the new value, the     *)
(* freq of the band and a record of another band or insert still hold      *)
(* their initial values.                                                   *)
C17_Witness ==
    /\ last.op = "band.__set__"
    /\ last.raised = "none"
    /\ last.arg[1] = 2
    /\ last.arg[2] = "gain"
    /\ bands[1] = bands[2]
    /\ BandGetFrom(recs, bands[1].kw, "gain") = Some(last.arg[3])
    /\ \E p \in RecordsOf(bands[1].insert, InsertEQ[bands[1].band].freq) :
           /\ recs[p].msg = InitMsg(p)
           /\ BandGetFrom(recs, bands[1].kw, "freq") = Some(InitMsg(p))
    /\ \E q \in 1..Len(recs) :
           /\ recs[q].id \in {LowGain, MidGain}
           /\ q \notin RecordsOf(bands[1].insert,
                                 InsertEQ[bands[1].band].gain)
           /\ recs[q].msg = InitMsg(q)

====
